---- MODULE Spec2Model ----
(***************************************************************************)
(* Pairing and session-relay core of the kodo backend                      *)
(* (src/src/server/src/index.ts, the socket.io/redis server that starts    *)
(* at line 296): token issuance, join, listenForToken, sendMessage and     *)
(* disconnect, with the redis store, the socket.io connection registry     *)
(* and the translation collaborator.                                       *)
(*                                                                         *)
(* Node runs one handler segment at a time; a handler yields only at an    *)
(* `await`.  All redis commands go over one client connection, so redis    *)
(* executes them in the order they are issued.  A step of a handler is     *)
(* therefore: consume the result of the previous command, run the          *)
(* synchronous code up to the next `await`, and issue (= execute) the      *)
(* command awaited there.  Replies come back in the order of the commands, *)
(* so handlers that await the store resume in that order; a handler that   *)
(* awaits the translation collaborator resumes at any time.                *)
(***************************************************************************)
EXTENDS Naturals, Integers, Sequences, FiniteSets, TLC

\* ---------------------------------------------------------------- bounds
MaxTokens == 2      \* tokens that are issued in one run
MaxRooms == 2       \* room ids that are created in one run
MaxOps == 4         \* events (handler invocations, key expiries) in one run
MaxHandlers == 2    \* handler slots (handlers in flight at once, at most)

\* ------------------------------------------------------------- constants
TtlHttpFlow == 600      \* generate-qr, useHttp === true
TtlSocketHeader == 120  \* generate-qr otherwise
TtlGenerateToken == 300 \* generateToken
TtlListen == 600        \* listenForToken re-stores the token
TtlPendingRoom == 600   \* pending room, and the room completed by listenForToken
NoTtl == 0              \* SET without EX: the key never expires

Conns == {"c1", "c2", "c3"}
BackendTemp == "/backend-temp"
MainNs == "/"
\* The namespace a client connected to; a socket id lives in one namespace.
NsOf(c) == IF c = "c3" THEN MainNs ELSE BackendTemp

Langs == {"en", "es"}
\* The language a client has chosen and sends with join and listenForToken.
LangOf(c) == IF c = "c2" THEN "es" ELSE "en"
Undefined == "undefined"
HttpGenerated == "http-generated"
DefaultLang == "en"

\* What a /generate-qr request carries as socket id and as language.
HeaderSocketIds == {Undefined, "c1"}
BodyLanguages == {"es"}

Tokens == 1..MaxTokens
Rooms == 1..MaxRooms
NoToken == 0    \* a room record without a token field
NoRoom == 0     \* no room id
Slots == 1..MaxHandlers
\* What a join event may carry: a token or none, the client's language or none.
JoinTokens == Tokens \cup {NoToken}
JoinLanguages(c) == {LangOf(c), Undefined}

\* ------------------------------------------------------------ the records
AbsentToken ==
  [present |-> FALSE, requestingUserId |-> Undefined, hostLanguage |-> Undefined,
   useHttp |-> Undefined, ttl |-> NoTtl]

NoUser == [has |-> FALSE, socketId |-> Undefined, language |-> Undefined]
User(id, lang) == [has |-> TRUE, socketId |-> id, language |-> lang]

AbsentRoom ==
  [present |-> FALSE, token |-> NoToken, pendingUserA |-> Undefined,
   userA |-> NoUser, userB |-> NoUser, ttl |-> NoTtl]

Event(ev, room, lang, tok) == [ev |-> ev, roomId |-> room, partnerLanguage |-> lang, token |-> tok]

\* The texts a client sends, and what the translation collaborator answers.
Msgs == {"m1", "m2"}
TranslationOf(m) == IF m = "m1" THEN "t1" ELSE "t2"
TranslationFailed == "(Translation failed)"
\* A slip: the role is not set per recipient.
NewMessageOneRole(original, translated, sender) ==
  [ev |-> "newMessage", roomId |-> NoRoom, partnerLanguage |-> Undefined, token |-> NoToken,
   original |-> original, translated |-> translated, sender |-> "self"]

\* messagePayload of newMessage: { original, translated, sender }
NewMessage(original, translated, sender) ==
  [ev |-> "newMessage", roomId |-> NoRoom, partnerLanguage |-> Undefined, token |-> NoToken,
   original |-> original, translated |-> translated, sender |-> sender]

VARIABLES
  live,        \* connection -> "connected" | "gone"
  tokenStore,  \* redis qr_token:<token>
  roomStore,   \* redis room:<roomId>
  userSocket,  \* redis user_socket:<socketId> -> roomId (NoRoom: no key)
  inbox,       \* connection -> the events the server delivered to it, in order
  h,           \* handler slot -> the handler in it: its position and its locals
  nextToken,   \* tokens issued so far + 1
  nextRoom,    \* room ids created so far + 1
  ops,         \* events so far
  log,         \* the handlers that finished and the keys that expired, in order
  cap,         \* handlers that may be in flight at once
  faults,      \* store commands that may still fail
  redisQueue   \* handler slots awaiting a reply of the store, oldest command first

vars == <<live, tokenStore, roomStore, userSocket, inbox, h, nextToken, nextRoom,
          ops, log, cap, faults, redisQueue>>

\* What a handler found when it started (kept to state what it changed); a
\* handler also keeps the ordinal `at` of the event that started it.
Snapshot == [tokens |-> tokenStore, rooms |-> roomStore, socks |-> userSocket,
             inbox |-> inbox, live |-> live]

IdleProc ==
  [kind |-> "none", conn |-> Undefined, pc |-> "idle", at |-> 0, token |-> NoToken,
   language |-> Undefined, res |-> "ok", tok |-> AbsentToken, roomId |-> NoRoom,
   room |-> AbsentRoom, sockRes |-> NoRoom, scan |-> <<>>, userA |-> Undefined,
   useHttp |-> Undefined, socketId |-> Undefined,
   text |-> Undefined, translated |-> Undefined, recipient |-> Undefined,
   invoked |-> FALSE,
   sent |-> <<>>, outcome |-> Undefined,
   pre |-> [tokens |-> [t \in Tokens |-> AbsentToken],
            rooms |-> [r \in Rooms |-> AbsentRoom],
            socks |-> [c \in Conns |-> NoRoom],
            inbox |-> [c \in Conns |-> <<>>],
            live |-> [c \in Conns |-> "connected"]]]

\* --------------------------------------------------- connection registry
\* backendNamespace.sockets.get(id): join, sendMessage and disconnect use it.
ResolveTemp(id) == id \in Conns /\ live[id] = "connected" /\ NsOf(id) = BackendTemp
\* io.sockets.sockets.get(id), the default namespace: listenForToken uses it.
ResolveMain(id) == id \in Conns /\ live[id] = "connected" /\ NsOf(id) = MainNs

\* socket.emit on a socket object: delivered while the socket is connected.
Deliver(inb, c, e) ==
  IF c \in Conns /\ live[c] = "connected" THEN [inb EXCEPT ![c] = Append(@, e)] ELSE inb

Sent(c, e) == [to |-> c, ev |-> e.ev, roomId |-> e.roomId,
               partnerLanguage |-> e.partnerLanguage,
               delivered |-> (c \in Conns /\ live[c] = "connected")]

\* ------------------------------------------------------------- scheduling
Active(s) == h[s].pc \notin {"idle", "done"}
NumActive == Cardinality({s \in Slots : Active(s)})
Idle == NumActive = 0
\* A new handler takes the lowest slot that holds no running handler.
FreeSlot(s) == ~Active(s) /\ \A s2 \in Slots : s2 < s => Active(s2)
CanStart(s) == FreeSlot(s) /\ NumActive < cap /\ ops < MaxOps

\* The store client has one connection: replies come back in the order the
\* commands were sent, and each reply resumes the handler that awaits it.
AwaitsStore(pc) == pc \notin {"idle", "done", "m_translate"}
Turn(s) == redisQueue # <<>> /\ Head(redisQueue) = s
\* The handler in slot s has taken its reply (if it awaited one) and has sent
\* its next command (if it awaits one now).
Requeue(s) ==
  LET rest == IF AwaitsStore(h[s].pc) THEN Tail(redisQueue) ELSE redisQueue
  IN IF AwaitsStore(h'[s].pc) THEN Append(rest, s) ELSE rest

\* The tokens a client can present: tokens are random and unguessable, so a
\* client names a token that was issued (it may have expired or been deleted).
Issued == 1..(nextToken - 1)

\* A redis command either succeeds or, while faults remain, rejects.
OkChoices == IF faults > 0 THEN {TRUE, FALSE} ELSE {TRUE}
Res(ok) == IF ok THEN "ok" ELSE "err"
Spend(ok) == faults' = IF ok THEN faults ELSE faults - 1

Summary(p, outcome) ==
  [kind |-> p.kind, conn |-> p.conn, at |-> p.at, token |-> p.token, language |-> p.language,
   text |-> p.text,
   useHttp |-> p.useHttp, socketId |-> p.socketId, roomId |-> p.roomId,
   peer |-> IF p.kind = "listenForToken" THEN p.room.userB.socketId
            ELSE IF p.kind = "sendMessage" THEN p.recipient ELSE p.userA,
   outcome |-> outcome]

\* The handler in slot s returns: its locals stay readable until the slot is reused.
Finish(s, p, outcome) ==
  /\ h' = [h EXCEPT ![s] = [p EXCEPT !.pc = "done", !.outcome = outcome]]
  /\ log' = Append(log, Summary(p, outcome))

Begin(kind, c, tok, lang) ==
  [IdleProc EXCEPT !.kind = kind, !.conn = c, !.at = ops + 1, !.token = tok,
                   !.language = lang, !.pre = Snapshot]

MaxFaults == 1      \* store commands that fail in one run

\* ------------------------------------------------------------------ Init
\* The server is up, the store is empty, and the clients have connected
\* (handleSocketConnection has sent each its server_ack).
Init ==
  /\ live = [c \in Conns |-> "connected"]
  /\ tokenStore = [t \in Tokens |-> AbsentToken]
  /\ roomStore = [r \in Rooms |-> AbsentRoom]
  /\ userSocket = [c \in Conns |-> NoRoom]
  /\ inbox = [c \in Conns |-> <<Event("server_ack", NoRoom, Undefined, NoToken)>>]
  /\ h = [s \in Slots |-> IdleProc]
  /\ nextToken = 1
  /\ nextRoom = 1
  /\ ops = 0
  /\ log = <<>>
  /\ cap = 1
  /\ faults = 0
  /\ redisQueue = <<>>

\* ------------------------------------------------------- POST /generate-qr
\* body.useHttp, body.socketId || header x-socket-id, body.language
GenerateQr(s, useHttp, socketId, language) ==
  /\ CanStart(s)
  /\ nextToken <= MaxTokens
  /\ \E ok \in OkChoices :
       LET token == nextToken
           rec == [present |-> TRUE,
                   requestingUserId |-> IF socketId = Undefined THEN HttpGenerated ELSE socketId,
                   hostLanguage |-> IF language = Undefined THEN DefaultLang ELSE language,
                   useHttp |-> IF useHttp = "true" THEN "true" ELSE "false",
                   ttl |-> IF useHttp = "true" THEN TtlHttpFlow ELSE TtlSocketHeader]
           p == [Begin("generate-qr", "http", token, language)
                   EXCEPT !.res = Res(ok), !.useHttp = useHttp, !.socketId = socketId]
       IN /\ tokenStore' = IF ok THEN [tokenStore EXCEPT ![token] = rec] ELSE tokenStore
          /\ Spend(ok)
          /\ Finish(s, p, IF ok THEN "token" ELSE "error")
  /\ nextToken' = nextToken + 1
  /\ ops' = ops + 1
  /\ UNCHANGED <<live, roomStore, userSocket, inbox, nextRoom, cap>>
  /\ redisQueue' = Requeue(s)

\* ------------------------------------------------------------ generateToken
GenerateTokenStart(s, c) ==
  /\ CanStart(s)
  /\ live[c] = "connected"
  /\ nextToken <= MaxTokens
  /\ \E ok \in OkChoices :
       LET token == nextToken
           rec == [present |-> TRUE, requestingUserId |-> c, hostLanguage |-> Undefined,
                   useHttp |-> Undefined, ttl |-> TtlGenerateToken]
       IN /\ tokenStore' = IF ok THEN [tokenStore EXCEPT ![token] = rec] ELSE tokenStore
          /\ Spend(ok)
          /\ h' = [h EXCEPT ![s] = [Begin("generateToken", c, token, Undefined)
                                      EXCEPT !.pc = "gt_set", !.res = Res(ok)]]
  /\ nextToken' = nextToken + 1
  /\ ops' = ops + 1
  /\ UNCHANGED <<live, roomStore, userSocket, inbox, nextRoom, log, cap>>
  /\ redisQueue' = Requeue(s)

\* A slip: tokenGenerated is emitted to every connection.
GenerateTokenDoneBroadcast(s) ==
  LET p == h[s]
      e == IF p.res = "ok" THEN Event("tokenGenerated", NoRoom, Undefined, p.token)
                           ELSE Event("error", NoRoom, Undefined, NoToken)
  IN
  /\ p.pc = "gt_set"
  /\ Turn(s)
  /\ inbox' = [c \in Conns |-> IF live[c] = "connected" THEN Append(inbox[c], e) ELSE inbox[c]]
  /\ Finish(s, [p EXCEPT !.sent = Append(@, Sent(p.conn, e))],
            IF p.res = "ok" THEN "token" ELSE "error")
  /\ UNCHANGED <<live, tokenStore, roomStore, userSocket, nextToken, nextRoom, ops, cap, faults>>
  /\ redisQueue' = Requeue(s)

GenerateTokenDone(s) ==
  LET p == h[s] IN
  /\ p.pc = "gt_set"
  /\ Turn(s)
  /\ LET e == IF p.res = "ok" THEN Event("tokenGenerated", NoRoom, Undefined, p.token)
                               ELSE Event("error", NoRoom, Undefined, NoToken)
     IN /\ inbox' = Deliver(inbox, p.conn, e)
        /\ Finish(s, [p EXCEPT !.sent = Append(@, Sent(p.conn, e))],
                  IF p.res = "ok" THEN "token" ELSE "error")
  /\ UNCHANGED <<live, tokenStore, roomStore, userSocket, nextToken, nextRoom, ops, cap, faults>>
  /\ redisQueue' = Requeue(s)

\* --------------------------------------------------------------------- join
\* socket.on('join', async ({ token, language }) => ...): up to the first await.
JoinStart(s, c, token, language) ==
  /\ CanStart(s)
  /\ live[c] = "connected"
  /\ token \in Issued \cup {NoToken}
  /\ nextRoom <= MaxRooms
  /\ \E ok \in OkChoices :
       /\ Spend(ok)
       /\ h' = [h EXCEPT ![s] = [Begin("join", c, token, language)
                                   EXCEPT !.pc = "j_get", !.res = Res(ok),
                                          !.tok = IF ok /\ token # NoToken THEN tokenStore[token]
                                                  ELSE AbsentToken]]
  /\ ops' = ops + 1
  /\ UNCHANGED <<live, tokenStore, roomStore, userSocket, inbox, nextToken, nextRoom, log, cap>>
  /\ redisQueue' = Requeue(s)

\* A slip: the error of the catch block also goes to the issuer of the token.
JoinCatchTellsIssuer(s, p) ==
  LET e == Event("error", NoRoom, Undefined, NoToken)
      A == p.tok.requestingUserId
  IN
  /\ inbox' = Deliver(Deliver(inbox, p.conn, e), A, e)
  /\ Finish(s, [p EXCEPT !.sent = @ \o <<Sent(p.conn, e), Sent(A, e)>>], "error")
  /\ UNCHANGED <<tokenStore, roomStore, userSocket, nextRoom, faults>>

\* The catch block of join: one error event to the caller.
JoinCatch(s, p) ==
  LET e == Event("error", NoRoom, Undefined, NoToken) IN
  /\ inbox' = Deliver(inbox, p.conn, e)
  /\ Finish(s, [p EXCEPT !.sent = Append(@, Sent(p.conn, e))], "error")
  /\ UNCHANGED <<tokenStore, roomStore, userSocket, nextRoom, faults>>

\* A slip: the pending flag is left out of the record.
PendingRoomDataUnflagged(p) ==
  [present |-> TRUE, token |-> p.token, pendingUserA |-> Undefined, userA |-> NoUser,
   userB |-> User(p.conn, p.language), ttl |-> TtlPendingRoom]

PendingRoomData(p) ==
  [present |-> TRUE, token |-> p.token, pendingUserA |-> "true", userA |-> NoUser,
   userB |-> User(p.conn, p.language), ttl |-> TtlPendingRoom]

\* tokenData.hostLanguage || 'en'
HostLanguageOf(tok) == IF tok.hostLanguage = Undefined THEN DefaultLang ELSE tok.hostLanguage

\* A slip: user A is stored with the language user B sent.
PairedRoomDataSwapped(p) ==
  [present |-> TRUE, token |-> NoToken, pendingUserA |-> Undefined,
   userA |-> User(p.tok.requestingUserId, p.language),
   userB |-> User(p.conn, p.language), ttl |-> NoTtl]

PairedRoomData(p) ==
  [present |-> TRUE, token |-> NoToken, pendingUserA |-> Undefined,
   userA |-> User(p.tok.requestingUserId, HostLanguageOf(p.tok)),
   userB |-> User(p.conn, p.language), ttl |-> NoTtl]

\* tokenData.useHttp === true || userA_SocketId === 'http-generated'
IsHttpFlow(tok) == tok.useHttp = "true" \/ tok.requestingUserId = HttpGenerated

\* After GET qr_token: the token check, the lookup of user A, and the first write.
JoinAfterGet(s) ==
  LET p == h[s] IN
  /\ p.pc = "j_get"
  /\ Turn(s)
  /\ IF p.res = "err" THEN JoinCatch(s, p)
     ELSE IF ~p.tok.present THEN
       LET e == Event("error", NoRoom, Undefined, NoToken) IN
       /\ inbox' = Deliver(inbox, p.conn, e)
       /\ Finish(s, [p EXCEPT !.sent = Append(@, Sent(p.conn, e))], "invalid")
       /\ UNCHANGED <<tokenStore, roomStore, userSocket, nextRoom, faults>>
     ELSE IF ~ResolveTemp(p.tok.requestingUserId) THEN
       IF IsHttpFlow(p.tok) THEN
         \* the pending room: SET room:<roomId> EX 600
         /\ nextRoom <= MaxRooms
         /\ \E ok \in OkChoices :
              LET q == [p EXCEPT !.roomId = nextRoom, !.res = Res(ok), !.pc = "j_pend_room"] IN
              /\ Spend(ok)
              /\ roomStore' = IF ok THEN [roomStore EXCEPT ![nextRoom] = PendingRoomData(q)]
                                    ELSE roomStore
              /\ h' = [h EXCEPT ![s] = q]
         /\ nextRoom' = nextRoom + 1
         /\ UNCHANGED <<tokenStore, userSocket, inbox, log>>
       ELSE
         \* user A is gone: error to the caller, then DEL qr_token
         LET e == Event("error", NoRoom, Undefined, NoToken) IN
         /\ inbox' = Deliver(inbox, p.conn, e)
         /\ \E ok \in OkChoices :
              /\ Spend(ok)
              /\ tokenStore' = IF ok THEN [tokenStore EXCEPT ![p.token] = AbsentToken]
                                     ELSE tokenStore
              /\ h' = [h EXCEPT ![s] = [p EXCEPT !.sent = Append(@, Sent(p.conn, e)),
                                                 !.res = Res(ok), !.pc = "j_gone_del"]]
         /\ UNCHANGED <<roomStore, userSocket, nextRoom, log>>
     ELSE
       \* user A is connected: SET room:<roomId> (no expiry)
       /\ nextRoom <= MaxRooms
       /\ \E ok \in OkChoices :
            LET q == [p EXCEPT !.roomId = nextRoom, !.userA = p.tok.requestingUserId,
                               !.res = Res(ok), !.pc = "j_room"] IN
            /\ Spend(ok)
            /\ roomStore' = IF ok THEN [roomStore EXCEPT ![nextRoom] = PairedRoomData(q)]
                                  ELSE roomStore
            /\ h' = [h EXCEPT ![s] = q]
       /\ nextRoom' = nextRoom + 1
       /\ UNCHANGED <<tokenStore, userSocket, inbox, log>>
  /\ UNCHANGED <<live, nextToken, ops, cap>>
  /\ redisQueue' = Requeue(s)

\* Pending path, after SET room: SET user_socket:<B>
JoinPendingAfterRoom(s) ==
  LET p == h[s] IN
  /\ p.pc = "j_pend_room"
  /\ Turn(s)
  /\ IF p.res = "err" THEN JoinCatch(s, p)
     ELSE \E ok \in OkChoices :
            /\ Spend(ok)
            /\ userSocket' = IF ok THEN [userSocket EXCEPT ![p.conn] = p.roomId] ELSE userSocket
            /\ h' = [h EXCEPT ![s] = [p EXCEPT !.res = Res(ok), !.pc = "j_pend_sock"]]
            /\ UNCHANGED <<tokenStore, roomStore, inbox, nextRoom, log>>
  /\ UNCHANGED <<live, nextToken, ops, cap>>
  /\ redisQueue' = Requeue(s)

\* Pending path, after SET user_socket: socket.join, waitingForHost to the caller
\* and to the room of the default namespace (the caller, when it is a socket of "/").
JoinPendingDone(s) ==
  LET p == h[s] IN
  /\ p.pc = "j_pend_sock"
  /\ Turn(s)
  /\ IF p.res = "err" THEN JoinCatch(s, p)
     ELSE LET e == Event("waitingForHost", p.roomId, Undefined, p.token)
              once == Deliver(inbox, p.conn, e)
              twice == IF NsOf(p.conn) = MainNs THEN Deliver(once, p.conn, e) ELSE once
              sent1 == Append(p.sent, Sent(p.conn, e))
              sent2 == IF NsOf(p.conn) = MainNs THEN Append(sent1, Sent(p.conn, e)) ELSE sent1
          IN /\ inbox' = twice
             /\ Finish(s, [p EXCEPT !.sent = sent2], "waiting")
             /\ UNCHANGED <<tokenStore, roomStore, userSocket, nextRoom, faults>>
  /\ UNCHANGED <<live, nextToken, ops, cap>>
  /\ redisQueue' = Requeue(s)

\* "Non-HTTP case where User A disconnected", after DEL qr_token
JoinGoneDone(s) ==
  LET p == h[s] IN
  /\ p.pc = "j_gone_del"
  /\ Turn(s)
  /\ IF p.res = "err" THEN JoinCatch(s, p)
     ELSE /\ Finish(s, p, "unavailable")
          /\ UNCHANGED <<tokenStore, roomStore, userSocket, inbox, nextRoom, faults>>
  /\ UNCHANGED <<live, nextToken, ops, cap>>
  /\ redisQueue' = Requeue(s)

\* Immediate path, after SET room: SET user_socket:<A>
JoinAfterRoom(s) ==
  LET p == h[s] IN
  /\ p.pc = "j_room"
  /\ Turn(s)
  /\ IF p.res = "err" THEN JoinCatch(s, p)
     ELSE \E ok \in OkChoices :
            /\ Spend(ok)
            /\ userSocket' = IF ok THEN [userSocket EXCEPT ![p.userA] = p.roomId] ELSE userSocket
            /\ h' = [h EXCEPT ![s] = [p EXCEPT !.res = Res(ok), !.pc = "j_sock_a"]]
            /\ UNCHANGED <<tokenStore, roomStore, inbox, nextRoom, log>>
  /\ UNCHANGED <<live, nextToken, ops, cap>>
  /\ redisQueue' = Requeue(s)

\* Immediate path, after SET user_socket:<A>: SET user_socket:<B>
JoinAfterSockA(s) ==
  LET p == h[s] IN
  /\ p.pc = "j_sock_a"
  /\ Turn(s)
  /\ IF p.res = "err" THEN JoinCatch(s, p)
     ELSE \E ok \in OkChoices :
            /\ Spend(ok)
            /\ userSocket' = IF ok THEN [userSocket EXCEPT ![p.conn] = p.roomId] ELSE userSocket
            /\ h' = [h EXCEPT ![s] = [p EXCEPT !.res = Res(ok), !.pc = "j_sock_b"]]
            /\ UNCHANGED <<tokenStore, roomStore, inbox, nextRoom, log>>
  /\ UNCHANGED <<live, nextToken, ops, cap>>
  /\ redisQueue' = Requeue(s)

\* Immediate path, after SET user_socket:<B>: both sockets join the room, DEL qr_token
JoinAfterSockB(s) ==
  LET p == h[s] IN
  /\ p.pc = "j_sock_b"
  /\ Turn(s)
  /\ IF p.res = "err" THEN JoinCatch(s, p)
     ELSE \E ok \in OkChoices :
            /\ Spend(ok)
            /\ tokenStore' = IF ok THEN [tokenStore EXCEPT ![p.token] = AbsentToken]
                                   ELSE tokenStore
            /\ h' = [h EXCEPT ![s] = [p EXCEPT !.res = Res(ok), !.pc = "j_del"]]
            /\ UNCHANGED <<roomStore, userSocket, inbox, nextRoom, log>>
  /\ UNCHANGED <<live, nextToken, ops, cap>>
  /\ redisQueue' = Requeue(s)

\* Immediate path, after DEL qr_token: joinedRoom to B, then to A
JoinPairedDone(s) ==
  LET p == h[s] IN
  /\ p.pc = "j_del"
  /\ Turn(s)
  /\ IF p.res = "err" THEN JoinCatch(s, p)
     ELSE LET forB == Event("joinedRoom", p.roomId, HostLanguageOf(p.tok), NoToken)
              forA == Event("joinedRoom", p.roomId, p.language, NoToken)
          IN /\ inbox' = Deliver(Deliver(inbox, p.conn, forB), p.userA, forA)
             /\ Finish(s, [p EXCEPT !.sent = p.sent \o <<Sent(p.conn, forB), Sent(p.userA, forA)>>],
                       "paired")
             /\ UNCHANGED <<tokenStore, roomStore, userSocket, nextRoom, faults>>
  /\ UNCHANGED <<live, nextToken, ops, cap>>
  /\ redisQueue' = Requeue(s)

\* ----------------------------------------------------------- listenForToken
\* socket.on('listenForToken', async ({ token, language }) => ...)
ListenStart(s, c, token, language) ==
  /\ CanStart(s)
  /\ live[c] = "connected"
  /\ token \in Issued
  /\ \E ok \in OkChoices :
       /\ Spend(ok)
       /\ h' = [h EXCEPT ![s] =
                  [Begin("listenForToken", c, token,
                         IF language = Undefined THEN DefaultLang ELSE language)
                     EXCEPT !.pc = "l_get", !.res = Res(ok),
                            !.tok = IF ok THEN tokenStore[token] ELSE AbsentToken]]
  /\ ops' = ops + 1
  /\ UNCHANGED <<live, tokenStore, roomStore, userSocket, inbox, nextToken, nextRoom, log, cap>>
  /\ redisQueue' = Requeue(s)

\* The catch block of listenForToken only logs.
ListenCatch(s, p) ==
  /\ Finish(s, p, "error")
  /\ UNCHANGED <<tokenStore, roomStore, userSocket, inbox, faults>>

\* A slip: the handler does not check that the token was found.
ListenAfterGetSkipsCheck(s) ==
  LET p == h[s] IN
  /\ p.pc = "l_get"
  /\ Turn(s)
  /\ IF p.res = "err" THEN ListenCatch(s, p)
     ELSE \E ok \in OkChoices :
       LET bound == [p.tok EXCEPT !.requestingUserId = p.conn, !.hostLanguage = p.language,
                                  !.ttl = TtlListen] IN
       /\ Spend(ok)
       /\ tokenStore' = IF ok THEN [tokenStore EXCEPT ![p.token] = bound] ELSE tokenStore
       /\ h' = [h EXCEPT ![s] = [p EXCEPT !.res = Res(ok), !.pc = "l_set"]]
       /\ UNCHANGED <<roomStore, userSocket, inbox, log>>
  /\ UNCHANGED <<live, nextToken, nextRoom, ops, cap>>
  /\ redisQueue' = Requeue(s)

\* After GET qr_token: bind the caller to the token, SET qr_token EX 600
ListenAfterGet(s) ==
  LET p == h[s] IN
  /\ p.pc = "l_get"
  /\ Turn(s)
  /\ IF p.res = "err" THEN ListenCatch(s, p)
     ELSE IF ~p.tok.present THEN
       LET e == Event("error", NoRoom, Undefined, NoToken) IN
       /\ inbox' = Deliver(inbox, p.conn, e)
       /\ Finish(s, [p EXCEPT !.sent = Append(@, Sent(p.conn, e))], "notfound")
       /\ UNCHANGED <<tokenStore, roomStore, userSocket, faults>>
     ELSE \E ok \in OkChoices :
       LET bound == [p.tok EXCEPT !.requestingUserId = p.conn, !.hostLanguage = p.language,
                                  !.ttl = TtlListen] IN
       /\ Spend(ok)
       /\ tokenStore' = IF ok THEN [tokenStore EXCEPT ![p.token] = bound] ELSE tokenStore
       /\ h' = [h EXCEPT ![s] = [p EXCEPT !.res = Res(ok), !.pc = "l_set"]]
       /\ UNCHANGED <<roomStore, userSocket, inbox, log>>
  /\ UNCHANGED <<live, nextToken, nextRoom, ops, cap>>
  /\ redisQueue' = Requeue(s)

\* The orders in which KEYS room:* may list a set of keys.
RECURSIVE Orders(_)
Orders(S) ==
  IF S = {} THEN {<<>>}
  ELSE UNION {{<<r>> \o rest : rest \in Orders(S \ {r})} : r \in S}

\* After SET qr_token: KEYS room:*
ListenAfterSet(s) ==
  LET p == h[s] IN
  /\ p.pc = "l_set"
  /\ Turn(s)
  /\ IF p.res = "err" THEN ListenCatch(s, p)
     ELSE \E ok \in OkChoices :
       /\ Spend(ok)
       /\ \E keys \in (IF ok THEN Orders({r \in Rooms : roomStore[r].present}) ELSE {<<>>}) :
            h' = [h EXCEPT ![s] = [p EXCEPT !.res = Res(ok), !.scan = keys, !.pc = "l_keys"]]
       /\ UNCHANGED <<tokenStore, roomStore, userSocket, inbox, log>>
  /\ UNCHANGED <<live, nextToken, nextRoom, ops, cap>>
  /\ redisQueue' = Requeue(s)

\* The loop head: GET the next room key, or leave the loop.
ListenNextKey(s, p) ==
  IF p.scan = <<>> THEN
    /\ Finish(s, p, "bound")
    /\ UNCHANGED <<tokenStore, roomStore, userSocket, inbox, faults>>
  ELSE \E ok \in OkChoices :
    /\ Spend(ok)
    /\ h' = [h EXCEPT ![s] = [p EXCEPT !.res = Res(ok), !.roomId = Head(p.scan),
                                       !.room = IF ok THEN roomStore[Head(p.scan)] ELSE AbsentRoom,
                                       !.scan = Tail(p.scan), !.pc = "l_room"]]
    /\ UNCHANGED <<tokenStore, roomStore, userSocket, inbox, log>>

\* After KEYS
ListenAfterKeys(s) ==
  LET p == h[s] IN
  /\ p.pc = "l_keys"
  /\ Turn(s)
  /\ IF p.res = "err" THEN ListenCatch(s, p) ELSE ListenNextKey(s, p)
  /\ UNCHANGED <<live, nextToken, nextRoom, ops, cap>>
  /\ redisQueue' = Requeue(s)

\* A slip: the pending flag is not cleared.
CompletedRoomDataStillPending(p) ==
  [p.room EXCEPT !.userA = User(p.conn, p.language), !.ttl = TtlPendingRoom]

\* parsedRoomData.pendingUserA = false; parsedRoomData.userA = { socket.id, hostLanguage }
CompletedRoomData(p) ==
  [p.room EXCEPT !.pendingUserA = "false", !.userA = User(p.conn, p.language),
                 !.ttl = TtlPendingRoom]

\* A slip: the pending flag is not looked at.
MatchesPendingIgnoresFlag(room, token) ==
  room.present /\ room.token = token

\* parsedRoomData.token === token && parsedRoomData.pendingUserA
MatchesPending(room, token) ==
  room.present /\ room.token = token /\ room.pendingUserA = "true"

\* After GET room:<id>: complete a matching pending room (SET room EX 600), else go on.
ListenAfterRoom(s) ==
  LET p == h[s] IN
  /\ p.pc = "l_room"
  /\ Turn(s)
  /\ IF p.res = "err" THEN ListenCatch(s, p)
     ELSE IF MatchesPending(p.room, p.token) THEN
       \E ok \in OkChoices :
         /\ Spend(ok)
         /\ roomStore' = IF ok THEN [roomStore EXCEPT ![p.roomId] = CompletedRoomData(p)]
                               ELSE roomStore
         /\ h' = [h EXCEPT ![s] = [p EXCEPT !.res = Res(ok), !.pc = "l_room_set"]]
         /\ UNCHANGED <<tokenStore, userSocket, inbox, log>>
     ELSE ListenNextKey(s, [p EXCEPT !.roomId = NoRoom, !.room = AbsentRoom])
  /\ UNCHANGED <<live, nextToken, nextRoom, ops, cap>>
  /\ redisQueue' = Requeue(s)

\* After SET room: SET user_socket:<host>
ListenAfterRoomSet(s) ==
  LET p == h[s] IN
  /\ p.pc = "l_room_set"
  /\ Turn(s)
  /\ IF p.res = "err" THEN ListenCatch(s, p)
     ELSE \E ok \in OkChoices :
       /\ Spend(ok)
       /\ userSocket' = IF ok THEN [userSocket EXCEPT ![p.conn] = p.roomId] ELSE userSocket
       /\ h' = [h EXCEPT ![s] = [p EXCEPT !.res = Res(ok), !.pc = "l_sock"]]
       /\ UNCHANGED <<tokenStore, roomStore, inbox, log>>
  /\ UNCHANGED <<live, nextToken, nextRoom, ops, cap>>
  /\ redisQueue' = Requeue(s)

\* After SET user_socket: joinedRoom to B if io.sockets.sockets has it, then to the host
ListenCompletedDone(s) ==
  LET p == h[s] IN
  /\ p.pc = "l_sock"
  /\ Turn(s)
  /\ IF p.res = "err" THEN ListenCatch(s, p)
     ELSE LET b == p.room.userB.socketId
              forB == Event("joinedRoom", p.roomId, p.language, NoToken)
              forA == Event("joinedRoom", p.roomId, p.room.userB.language, NoToken)
              inb1 == IF ResolveMain(b) THEN Deliver(inbox, b, forB) ELSE inbox
              sent1 == IF ResolveMain(b) THEN Append(p.sent, Sent(b, forB)) ELSE p.sent
          IN /\ inbox' = Deliver(inb1, p.conn, forA)
             /\ Finish(s, [p EXCEPT !.sent = Append(sent1, Sent(p.conn, forA))], "completed")
             /\ UNCHANGED <<tokenStore, roomStore, userSocket, faults>>
  /\ UNCHANGED <<live, nextToken, nextRoom, ops, cap>>
  /\ redisQueue' = Requeue(s)

\* A slip: the mapping is read under the key of another socket.
DisconnectRunWrongKey(s, c) ==
  \E ok \in OkChoices :
    /\ Spend(ok)
    /\ h' = [h EXCEPT ![s] = [Begin("disconnect", c, NoToken, Undefined)
                                EXCEPT !.pc = "d_sock", !.res = Res(ok),
                                       !.sockRes = IF ok THEN userSocket["c1"] ELSE NoRoom]]
    /\ ops' = ops + 1

\* --------------------------------------------------------------- disconnect
\* The disconnect handler of socket c, up to GET user_socket:<c>.
DisconnectRun(s, c) ==
  \E ok \in OkChoices :
    /\ Spend(ok)
    /\ h' = [h EXCEPT ![s] = [Begin("disconnect", c, NoToken, Undefined)
                                EXCEPT !.pc = "d_sock", !.res = Res(ok),
                                       !.sockRes = IF ok THEN userSocket[c] ELSE NoRoom]]
    /\ ops' = ops + 1

\* The socket closes: socket.io drops it from its namespace and fires 'disconnect'.
Disconnect(s, c) ==
  /\ CanStart(s)
  /\ live[c] = "connected"
  /\ live' = [live EXCEPT ![c] = "gone"]
  /\ DisconnectRun(s, c)
  /\ UNCHANGED <<tokenStore, roomStore, userSocket, inbox, nextToken, nextRoom, log, cap>>
  /\ redisQueue' = Requeue(s)

\* The handler run once more for a socket that is already gone.
DisconnectAgain(s, c) ==
  /\ CanStart(s)
  /\ live[c] = "gone"
  /\ DisconnectRun(s, c)
  /\ UNCHANGED <<live, tokenStore, roomStore, userSocket, inbox, nextToken, nextRoom, log, cap>>
  /\ redisQueue' = Requeue(s)

\* The socket id in the other slot of a room record.
OtherParticipant(room, c) ==
  IF room.userA.has /\ room.userA.socketId = c THEN room.userB.socketId
  ELSE room.userA.socketId

\* A slip: the catch block reports the failure to the partner in the room.
DisconnectCatchReports(s, p) ==
  LET e == Event("error", NoRoom, Undefined, NoToken)
      partner == IF p.sockRes \in Rooms THEN OtherParticipant(roomStore[p.sockRes], p.conn)
                 ELSE Undefined
  IN
  /\ inbox' = Deliver(inbox, partner, e)
  /\ Finish(s, [p EXCEPT !.sent = Append(@, Sent(partner, e))], "error")
  /\ UNCHANGED <<tokenStore, roomStore, userSocket, faults>>

DisconnectCatch(s, p) ==
  /\ Finish(s, p, "error")
  /\ UNCHANGED <<tokenStore, roomStore, userSocket, inbox, faults>>

\* After GET user_socket: GET room:<roomId>
DisconnectAfterSock(s) ==
  LET p == h[s] IN
  /\ p.pc = "d_sock"
  /\ Turn(s)
  /\ IF p.res = "err" THEN DisconnectCatch(s, p)
     ELSE IF p.sockRes = NoRoom THEN
       /\ Finish(s, p, "noroom")
       /\ UNCHANGED <<tokenStore, roomStore, userSocket, inbox, faults>>
     ELSE \E ok \in OkChoices :
       /\ Spend(ok)
       /\ h' = [h EXCEPT ![s] = [p EXCEPT !.res = Res(ok), !.roomId = p.sockRes,
                                          !.room = IF ok THEN roomStore[p.sockRes] ELSE AbsentRoom,
                                          !.pc = "d_room"]]
       /\ UNCHANGED <<tokenStore, roomStore, userSocket, inbox, log>>
  /\ UNCHANGED <<live, nextToken, nextRoom, ops, cap>>
  /\ redisQueue' = Requeue(s)

\* A slip: the partner is only looked for when user A disconnects.
PartnerSocketIdOnlyForA(room, c) ==
  IF room.userA.has /\ room.userA.socketId = c
    THEN (IF room.userB.has THEN room.userB.socketId ELSE Undefined)
  ELSE Undefined

\* partnerSocketId as the handler computes it from the room record
PartnerSocketId(room, c) ==
  IF room.userA.has /\ room.userA.socketId = c
    THEN (IF room.userB.has THEN room.userB.socketId ELSE Undefined)
  ELSE IF room.userB.has /\ room.userB.socketId = c
    THEN (IF room.userA.has THEN room.userA.socketId ELSE Undefined)
  ELSE Undefined

\* After GET room: notify the partner and DEL user_socket, or DEL room first
DisconnectAfterRoom(s) ==
  LET p == h[s]
      partner == PartnerSocketId(p.room, p.conn)
  IN
  /\ p.pc = "d_room"
  /\ Turn(s)
  /\ IF p.res = "err" THEN DisconnectCatch(s, p)
     ELSE IF p.room.present /\ partner # Undefined THEN
       LET e == Event("partnerLeft", NoRoom, Undefined, NoToken)
           found == ResolveTemp(partner)
       IN \E ok \in OkChoices :
            /\ Spend(ok)
            /\ inbox' = IF found THEN Deliver(inbox, partner, e) ELSE inbox
            /\ userSocket' = IF ok THEN [userSocket EXCEPT ![p.conn] = NoRoom] ELSE userSocket
            /\ h' = [h EXCEPT ![s] = [p EXCEPT !.res = Res(ok), !.userA = partner,
                                        !.sent = IF found THEN Append(@, Sent(partner, e)) ELSE @,
                                        !.pc = "d_del_sock"]]
            /\ UNCHANGED <<tokenStore, roomStore, log>>
     ELSE IF p.room.present THEN
       \E ok \in OkChoices :
         /\ Spend(ok)
         /\ roomStore' = IF ok THEN [roomStore EXCEPT ![p.roomId] = AbsentRoom] ELSE roomStore
         /\ h' = [h EXCEPT ![s] = [p EXCEPT !.res = Res(ok), !.pc = "d_del_room"]]
         /\ UNCHANGED <<tokenStore, userSocket, inbox, log>>
     ELSE
       \E ok \in OkChoices :
         /\ Spend(ok)
         /\ userSocket' = IF ok THEN [userSocket EXCEPT ![p.conn] = NoRoom] ELSE userSocket
         /\ h' = [h EXCEPT ![s] = [p EXCEPT !.res = Res(ok), !.pc = "d_del_sock"]]
         /\ UNCHANGED <<tokenStore, roomStore, inbox, log>>
  /\ UNCHANGED <<live, nextToken, nextRoom, ops, cap>>
  /\ redisQueue' = Requeue(s)

\* A slip: after DEL room the mapping of the caller is left in the store.
DisconnectAfterRoomDelKeepsMapping(s) ==
  LET p == h[s] IN
  /\ p.pc = "d_del_room"
  /\ Turn(s)
  /\ IF p.res = "err" THEN DisconnectCatch(s, p)
     ELSE /\ h' = [h EXCEPT ![s] = [p EXCEPT !.pc = "d_del_sock"]]
          /\ UNCHANGED <<tokenStore, roomStore, userSocket, inbox, log, faults>>
  /\ UNCHANGED <<live, nextToken, nextRoom, ops, cap>>
  /\ redisQueue' = Requeue(s)

\* No partner, after DEL room: DEL user_socket
DisconnectAfterRoomDel(s) ==
  LET p == h[s] IN
  /\ p.pc = "d_del_room"
  /\ Turn(s)
  /\ IF p.res = "err" THEN DisconnectCatch(s, p)
     ELSE \E ok \in OkChoices :
       /\ Spend(ok)
       /\ userSocket' = IF ok THEN [userSocket EXCEPT ![p.conn] = NoRoom] ELSE userSocket
       /\ h' = [h EXCEPT ![s] = [p EXCEPT !.res = Res(ok), !.pc = "d_del_sock"]]
       /\ UNCHANGED <<tokenStore, roomStore, inbox, log>>
  /\ UNCHANGED <<live, nextToken, nextRoom, ops, cap>>
  /\ redisQueue' = Requeue(s)

\* After DEL user_socket
DisconnectDone(s) ==
  LET p == h[s] IN
  /\ p.pc = "d_del_sock"
  /\ Turn(s)
  /\ IF p.res = "err" THEN DisconnectCatch(s, p)
     ELSE /\ Finish(s, p, IF p.userA # Undefined THEN "kept-room"
                          ELSE IF p.room.present THEN "deleted-room" ELSE "stale-mapping")
          /\ UNCHANGED <<tokenStore, roomStore, userSocket, inbox, faults>>
  /\ UNCHANGED <<live, nextToken, nextRoom, ops, cap>>
  /\ redisQueue' = Requeue(s)

\* A slip: the room is read with a command that also resets its expiry.
SendStartRefreshesRoom(s, c, roomId, text) ==
  /\ CanStart(s)
  /\ live[c] = "connected"
  /\ roomId < nextRoom
  /\ \E ready \in OkChoices, ok \in OkChoices :
       LET p == [Begin("sendMessage", c, NoToken, Undefined)
                   EXCEPT !.roomId = roomId, !.text = text]
           e == Event("error", NoRoom, Undefined, NoToken)
       IN IF ~ready THEN
            /\ ok
            /\ faults' = faults - 1
            /\ inbox' = Deliver(inbox, c, e)
            /\ Finish(s, [p EXCEPT !.sent = Append(@, Sent(c, e))], "notready")
            /\ roomStore' = roomStore
          ELSE
            /\ Spend(ok)
            /\ h' = [h EXCEPT ![s] = [p EXCEPT !.pc = "m_get", !.res = Res(ok),
                                               !.room = IF ok THEN roomStore[roomId] ELSE AbsentRoom]]
            /\ roomStore' = IF ok /\ roomStore[roomId].present
                              THEN [roomStore EXCEPT ![roomId].ttl = TtlPendingRoom]
                              ELSE roomStore
            /\ UNCHANGED <<inbox, log>>
  /\ ops' = ops + 1
  /\ UNCHANGED <<live, tokenStore, userSocket, nextToken, nextRoom, cap>>
  /\ redisQueue' = Requeue(s)

\* -------------------------------------------------------------- sendMessage
\* socket.on('sendMessage', async ({ roomId, messageText }) => ...): the
\* readiness check of the store client, then GET room:<roomId>.
SendStart(s, c, roomId, text) ==
  /\ CanStart(s)
  /\ live[c] = "connected"
  /\ roomId < nextRoom
  /\ \E ready \in OkChoices, ok \in OkChoices :
       LET p == [Begin("sendMessage", c, NoToken, Undefined)
                   EXCEPT !.roomId = roomId, !.text = text]
           e == Event("error", NoRoom, Undefined, NoToken)
       IN IF ~ready THEN
            /\ ok
            /\ faults' = faults - 1
            /\ inbox' = Deliver(inbox, c, e)
            /\ Finish(s, [p EXCEPT !.sent = Append(@, Sent(c, e))], "notready")
          ELSE
            /\ Spend(ok)
            /\ h' = [h EXCEPT ![s] = [p EXCEPT !.pc = "m_get", !.res = Res(ok),
                                               !.room = IF ok THEN roomStore[roomId] ELSE AbsentRoom]]
            /\ UNCHANGED <<inbox, log>>
  /\ ops' = ops + 1
  /\ UNCHANGED <<live, tokenStore, roomStore, userSocket, nextToken, nextRoom, cap>>
  /\ redisQueue' = Requeue(s)

\* A slip: the handler returns without the error event.
SendErrorSilent(s, p, outcome) ==
  /\ inbox' = inbox
  /\ Finish(s, p, outcome)

\* An error event to the caller ends the handler.
SendError(s, p, outcome) ==
  LET e == Event("error", NoRoom, Undefined, NoToken) IN
  /\ inbox' = Deliver(inbox, p.conn, e)
  /\ Finish(s, [p EXCEPT !.sent = Append(@, Sent(p.conn, e))], outcome)

\* recipientSocketId as the handler reads it from the room record
RecipientSocketId(room, c) ==
  IF room.userA.has /\ room.userA.socketId = c
    THEN (IF room.userB.has THEN room.userB.socketId ELSE Undefined)
  ELSE IF room.userB.has /\ room.userB.socketId = c
    THEN (IF room.userA.has THEN room.userA.socketId ELSE Undefined)
  ELSE Undefined

\* A slip: the language of the sender is not read from the room record.
SenderLangUnset(room, c) == Undefined

SenderLang(room, c) ==
  IF room.userA.has /\ room.userA.socketId = c THEN room.userA.language
  ELSE room.userB.language

TargetLang(room, c) ==
  IF room.userA.has /\ room.userA.socketId = c THEN room.userB.language
  ELSE room.userA.language

IsSender(room, c) ==
  \/ room.userA.has /\ room.userA.socketId = c
  \/ room.userB.has /\ room.userB.socketId = c

\* translated: translationError || translatedText
TranslatedField(text, ok) == IF ok THEN TranslationOf(text) ELSE TranslationFailed

\* A slip: a recipient that is not found is reported to the sender as an error.
SendEmitReportsOffline(s, p, translated) ==
  LET forR == NewMessage(p.text, translated, "partner")
      forS == NewMessage(p.text, translated, "self")
      e == Event("error", NoRoom, Undefined, NoToken)
      found == ResolveTemp(p.recipient)
      inb1 == IF found THEN Deliver(inbox, p.recipient, forR) ELSE Deliver(inbox, p.conn, e)
      sent1 == IF found THEN Append(p.sent, Sent(p.recipient, forR))
               ELSE Append(p.sent, Sent(p.conn, e))
  IN /\ inbox' = Deliver(inb1, p.conn, forS)
     /\ Finish(s, [p EXCEPT !.translated = translated,
                            !.sent = Append(sent1, Sent(p.conn, forS))], "sent")

\* Step 5: newMessage to the recipient if /backend-temp has its socket, then to the sender.
SendEmit(s, p, translated) ==
  LET forR == NewMessage(p.text, translated, "partner")
      forS == NewMessage(p.text, translated, "self")
      found == ResolveTemp(p.recipient)
      inb1 == IF found THEN Deliver(inbox, p.recipient, forR) ELSE inbox
      sent1 == IF found THEN Append(p.sent, Sent(p.recipient, forR)) ELSE p.sent
  IN /\ inbox' = Deliver(inb1, p.conn, forS)
     /\ Finish(s, [p EXCEPT !.translated = translated,
                            !.sent = Append(sent1, Sent(p.conn, forS))], "sent")

\* After GET room: find sender and recipient; translate when the languages differ.
SendAfterGet(s) ==
  LET p == h[s]
      q == [p EXCEPT !.recipient = RecipientSocketId(p.room, p.conn)]
  IN
  /\ p.pc = "m_get"
  /\ Turn(s)
  /\ IF p.res = "err" THEN SendError(s, p, "error")
     ELSE IF ~p.room.present THEN SendError(s, p, "noroom")
     ELSE IF ~IsSender(p.room, p.conn) THEN SendError(s, p, "nosender")
     ELSE IF q.recipient = Undefined \/ TargetLang(p.room, p.conn) = Undefined
       THEN SendError(s, q, "partner-unavailable")
     ELSE IF SenderLang(p.room, p.conn) # TargetLang(p.room, p.conn) THEN
       \* await openai.chat.completions.create(...)
       /\ h' = [h EXCEPT ![s] = [q EXCEPT !.invoked = TRUE, !.pc = "m_translate"]]
       /\ UNCHANGED <<inbox, log>>
     ELSE SendEmit(s, q, p.text)
  /\ UNCHANGED <<live, tokenStore, roomStore, userSocket, nextToken, nextRoom, ops, cap, faults>>
  /\ redisQueue' = Requeue(s)

\* A slip: a failed translation ends the handler without a response.
SendAfterTranslateGivesUp(s) ==
  LET p == h[s] IN
  /\ p.pc = "m_translate"
  /\ \E ok \in BOOLEAN :
       IF ok THEN SendEmit(s, p, TranslatedField(p.text, ok))
       ELSE /\ inbox' = inbox
            /\ Finish(s, [p EXCEPT !.translated = TranslationFailed], "sent")
  /\ UNCHANGED <<live, tokenStore, roomStore, userSocket, nextToken, nextRoom, ops, cap, faults>>
  /\ redisQueue' = Requeue(s)

\* The translation collaborator answers, with a text or with an error.
SendAfterTranslate(s) ==
  LET p == h[s] IN
  /\ p.pc = "m_translate"
  /\ \E ok \in BOOLEAN : SendEmit(s, p, TranslatedField(p.text, ok))
  /\ UNCHANGED <<live, tokenStore, roomStore, userSocket, nextToken, nextRoom, ops, cap, faults>>
  /\ redisQueue' = Requeue(s)

\* ------------------------------------------------------------------ expiry
\* Time passes: what the finished handlers left in their slots is dropped.
Forget == [s \in Slots |-> IF h[s].pc = "done" THEN IdleProc ELSE h[s]]

\* redis drops a key whose EX time has passed.
ExpireToken(t) ==
  /\ NumActive < cap /\ ops < MaxOps
  /\ ops' = ops + 1
  /\ tokenStore[t].present /\ tokenStore[t].ttl > 0
  /\ tokenStore' = [tokenStore EXCEPT ![t] = AbsentToken]
  /\ h' = Forget
  /\ log' = Append(log, Summary([IdleProc EXCEPT !.kind = "expire-token", !.token = t], "expired"))
  /\ UNCHANGED <<live, roomStore, userSocket, inbox, nextToken, nextRoom, cap, faults, redisQueue>>

ExpireRoom(r) ==
  /\ NumActive < cap /\ ops < MaxOps
  /\ ops' = ops + 1
  /\ roomStore[r].present /\ roomStore[r].ttl > 0
  /\ roomStore' = [roomStore EXCEPT ![r] = AbsentRoom]
  /\ h' = Forget
  /\ log' = Append(log, Summary([IdleProc EXCEPT !.kind = "expire-room", !.roomId = r], "expired"))
  /\ UNCHANGED <<live, tokenStore, userSocket, inbox, nextToken, nextRoom, cap, faults, redisQueue>>

Next ==
  \/ \E s \in Slots, u \in {"true", "false"}, id \in HeaderSocketIds,
        l \in BodyLanguages : GenerateQr(s, u, id, l)
  \/ \E s \in Slots, c \in Conns : GenerateTokenStart(s, c)
  \/ \E s \in Slots : GenerateTokenDone(s)
  \/ \E s \in Slots, c \in Conns, t \in Tokens : JoinStart(s, c, t, LangOf(c))
  \/ \E s \in Slots : JoinAfterGet(s)
  \/ \E s \in Slots : JoinPendingAfterRoom(s)
  \/ \E s \in Slots : JoinPendingDone(s)
  \/ \E s \in Slots : JoinGoneDone(s)
  \/ \E s \in Slots : JoinAfterRoom(s)
  \/ \E s \in Slots : JoinAfterSockA(s)
  \/ \E s \in Slots : JoinAfterSockB(s)
  \/ \E s \in Slots : JoinPairedDone(s)
  \/ \E s \in Slots, c \in Conns, t \in Tokens : ListenStart(s, c, t, LangOf(c))
  \/ \E s \in Slots : ListenAfterGet(s)
  \/ \E s \in Slots : ListenAfterSet(s)
  \/ \E s \in Slots : ListenAfterKeys(s)
  \/ \E s \in Slots : ListenAfterRoom(s)
  \/ \E s \in Slots : ListenAfterRoomSet(s)
  \/ \E s \in Slots : ListenCompletedDone(s)
  \/ \E s \in Slots, c \in Conns : Disconnect(s, c)
  \/ \E s \in Slots, c \in Conns : DisconnectAgain(s, c)
  \/ \E s \in Slots : DisconnectAfterSock(s)
  \/ \E s \in Slots : DisconnectAfterRoom(s)
  \/ \E s \in Slots : DisconnectAfterRoomDel(s)
  \/ \E s \in Slots : DisconnectDone(s)
  \/ \E t \in Tokens : ExpireToken(t)
  \/ \E r \in Rooms : ExpireRoom(r)

Spec == Init /\ [][Next]_vars

\* ------------------------------------------- join racing with listenForToken
\* Two handlers may be in flight at once; the events are token issuance over
\* HTTP, join and listenForToken.
InitRace ==
  /\ live = [c \in Conns |-> "connected"]
  /\ tokenStore = [t \in Tokens |-> AbsentToken]
  /\ roomStore = [r \in Rooms |-> AbsentRoom]
  /\ userSocket = [c \in Conns |-> NoRoom]
  /\ inbox = [c \in Conns |-> <<Event("server_ack", NoRoom, Undefined, NoToken)>>]
  /\ h = [s \in Slots |-> IdleProc]
  /\ nextToken = 1
  /\ nextRoom = 1
  /\ ops = 0
  /\ log = <<>>
  /\ cap = MaxHandlers
  /\ faults = 0
  /\ redisQueue = <<>>

NextRace ==
  \/ \E s \in Slots, u \in {"true", "false"}, id \in HeaderSocketIds,
        l \in BodyLanguages : GenerateQr(s, u, id, l)
  \/ \E s \in Slots, c \in Conns, t \in Tokens : JoinStart(s, c, t, LangOf(c))
  \/ \E s \in Slots : JoinAfterGet(s)
  \/ \E s \in Slots : JoinPendingAfterRoom(s)
  \/ \E s \in Slots : JoinPendingDone(s)
  \/ \E s \in Slots : JoinGoneDone(s)
  \/ \E s \in Slots : JoinAfterRoom(s)
  \/ \E s \in Slots : JoinAfterSockA(s)
  \/ \E s \in Slots : JoinAfterSockB(s)
  \/ \E s \in Slots : JoinPairedDone(s)
  \/ \E s \in Slots, c \in Conns, t \in Tokens : ListenStart(s, c, t, LangOf(c))
  \/ \E s \in Slots : ListenAfterGet(s)
  \/ \E s \in Slots : ListenAfterSet(s)
  \/ \E s \in Slots : ListenAfterKeys(s)
  \/ \E s \in Slots : ListenAfterRoom(s)
  \/ \E s \in Slots : ListenAfterRoomSet(s)
  \/ \E s \in Slots : ListenCompletedDone(s)

SpecRace == InitRace /\ [][NextRace]_vars

\* ------------------------------------------------------------ message relay
\* One handler at a time: issuance, join (with or without its inputs),
\* listenForToken, disconnect and sendMessage.
NextRelay ==
  \/ \E s \in Slots, id \in HeaderSocketIds, l \in BodyLanguages : GenerateQr(s, "true", id, l)
  \/ \E s \in Slots, c \in Conns : GenerateTokenStart(s, c)
  \/ \E s \in Slots : GenerateTokenDone(s)
  \/ \E s \in Slots, c \in Conns, t \in JoinTokens :
        \E l \in JoinLanguages(c) : JoinStart(s, c, t, l)
  \/ \E s \in Slots : JoinAfterGet(s)
  \/ \E s \in Slots : JoinPendingAfterRoom(s)
  \/ \E s \in Slots : JoinPendingDone(s)
  \/ \E s \in Slots : JoinGoneDone(s)
  \/ \E s \in Slots : JoinAfterRoom(s)
  \/ \E s \in Slots : JoinAfterSockA(s)
  \/ \E s \in Slots : JoinAfterSockB(s)
  \/ \E s \in Slots : JoinPairedDone(s)
  \/ \E s \in Slots, c \in Conns, t \in Tokens : ListenStart(s, c, t, LangOf(c))
  \/ \E s \in Slots : ListenAfterGet(s)
  \/ \E s \in Slots : ListenAfterSet(s)
  \/ \E s \in Slots : ListenAfterKeys(s)
  \/ \E s \in Slots : ListenAfterRoom(s)
  \/ \E s \in Slots : ListenAfterRoomSet(s)
  \/ \E s \in Slots : ListenCompletedDone(s)
  \/ \E s \in Slots, c \in Conns : Disconnect(s, c)
  \/ \E s \in Slots : DisconnectAfterSock(s)
  \/ \E s \in Slots : DisconnectAfterRoom(s)
  \/ \E s \in Slots : DisconnectAfterRoomDel(s)
  \/ \E s \in Slots : DisconnectDone(s)
  \/ \E s \in Slots, c \in Conns, r \in Rooms, m \in Msgs : SendStart(s, c, r, m)
  \/ \E s \in Slots : SendAfterGet(s)
  \/ \E s \in Slots : SendAfterTranslate(s)

SpecRelay == Init /\ [][NextRelay]_vars

\* ------------------------------------------------------- store commands fail
InitFault ==
  /\ live = [c \in Conns |-> "connected"]
  /\ tokenStore = [t \in Tokens |-> AbsentToken]
  /\ roomStore = [r \in Rooms |-> AbsentRoom]
  /\ userSocket = [c \in Conns |-> NoRoom]
  /\ inbox = [c \in Conns |-> <<Event("server_ack", NoRoom, Undefined, NoToken)>>]
  /\ h = [s \in Slots |-> IdleProc]
  /\ nextToken = 1
  /\ nextRoom = 1
  /\ ops = 0
  /\ log = <<>>
  /\ cap = 1
  /\ faults = MaxFaults
  /\ redisQueue = <<>>

\* The handlers that report errors: issuance, join, listenForToken, sendMessage.
NextFault ==
  \/ \E s \in Slots : GenerateQr(s, "true", Undefined, "es")
  \/ \E s \in Slots, c \in Conns : GenerateTokenStart(s, c)
  \/ \E s \in Slots : GenerateTokenDone(s)
  \/ \E s \in Slots, c \in Conns, t \in Tokens : JoinStart(s, c, t, LangOf(c))
  \/ \E s \in Slots : JoinAfterGet(s)
  \/ \E s \in Slots : JoinPendingAfterRoom(s)
  \/ \E s \in Slots : JoinPendingDone(s)
  \/ \E s \in Slots : JoinGoneDone(s)
  \/ \E s \in Slots : JoinAfterRoom(s)
  \/ \E s \in Slots : JoinAfterSockA(s)
  \/ \E s \in Slots : JoinAfterSockB(s)
  \/ \E s \in Slots : JoinPairedDone(s)
  \/ \E s \in Slots, c \in Conns, t \in Tokens : ListenStart(s, c, t, LangOf(c))
  \/ \E s \in Slots : ListenAfterGet(s)
  \/ \E s \in Slots : ListenAfterSet(s)
  \/ \E s \in Slots : ListenAfterKeys(s)
  \/ \E s \in Slots : ListenAfterRoom(s)
  \/ \E s \in Slots : ListenAfterRoomSet(s)
  \/ \E s \in Slots : ListenCompletedDone(s)
  \/ \E s \in Slots, c \in Conns, r \in Rooms : SendStart(s, c, r, "m1")
  \/ \E s \in Slots : SendAfterGet(s)
  \/ \E s \in Slots : SendAfterTranslate(s)

SpecFault == InitFault /\ [][NextFault]_vars

\* ------------------------------------------------- teardown, store commands fail
\* Issuance, join and disconnect, one handler at a time, one store command may fail.
NextTeardown ==
  \/ \E s \in Slots : GenerateQr(s, "true", Undefined, "es")
  \/ \E s \in Slots, c \in Conns : GenerateTokenStart(s, c)
  \/ \E s \in Slots : GenerateTokenDone(s)
  \/ \E s \in Slots, c \in Conns, t \in Tokens : JoinStart(s, c, t, LangOf(c))
  \/ \E s \in Slots : JoinAfterGet(s)
  \/ \E s \in Slots : JoinPendingAfterRoom(s)
  \/ \E s \in Slots : JoinPendingDone(s)
  \/ \E s \in Slots : JoinGoneDone(s)
  \/ \E s \in Slots : JoinAfterRoom(s)
  \/ \E s \in Slots : JoinAfterSockA(s)
  \/ \E s \in Slots : JoinAfterSockB(s)
  \/ \E s \in Slots : JoinPairedDone(s)
  \/ \E s \in Slots, c \in Conns : Disconnect(s, c)
  \/ \E s \in Slots, c \in Conns : DisconnectAgain(s, c)
  \/ \E s \in Slots : DisconnectAfterSock(s)
  \/ \E s \in Slots : DisconnectAfterRoom(s)
  \/ \E s \in Slots : DisconnectAfterRoomDel(s)
  \/ \E s \in Slots : DisconnectDone(s)

SpecTeardown == InitFault /\ [][NextTeardown]_vars

\* ------------------------------------------------- sendMessage handlers overlap
\* The client was told the id of room r (by joinedRoom or waitingForHost).
Knows(c, r) == \E i \in DOMAIN inbox[c] : inbox[c][i].roomId = r
\* sendMessage from a client for a room it was told about.
SendToOwnRoom(s, c, roomId, text) == Knows(c, roomId) /\ SendStart(s, c, roomId, text)

\* Two handlers may be in flight at once; the events are generateToken, join
\* and sendMessage.
NextOrder ==
  \/ \E s \in Slots, c \in Conns : GenerateTokenStart(s, c)
  \/ \E s \in Slots : GenerateTokenDone(s)
  \/ \E s \in Slots, c \in Conns, t \in Tokens : JoinStart(s, c, t, LangOf(c))
  \/ \E s \in Slots : JoinAfterGet(s)
  \/ \E s \in Slots : JoinGoneDone(s)
  \/ \E s \in Slots : JoinAfterRoom(s)
  \/ \E s \in Slots : JoinAfterSockA(s)
  \/ \E s \in Slots : JoinAfterSockB(s)
  \/ \E s \in Slots : JoinPairedDone(s)
  \/ \E s \in Slots, c \in Conns, r \in Rooms, m \in Msgs : SendToOwnRoom(s, c, r, m)
  \/ \E s \in Slots : SendAfterGet(s)
  \/ \E s \in Slots : SendAfterTranslate(s)

SpecOrder == InitRace /\ [][NextOrder]_vars

\* ===================================================================== claims
Count(c, ev) == Cardinality({i \in DOMAIN inbox[c] : inbox[c][i].ev = ev})
PresentRooms == {r \in Rooms : roomStore[r].present}
\* A client connected to the namespace the deployed clients use.
Connected(c) == live[c] = "connected" /\ NsOf(c) = BackendTemp

\* The room r is fully paired, A its userA and B its userB.
FullyPaired(r, A, B) ==
  /\ roomStore[r].present
  /\ roomStore[r].pendingUserA # "true"
  /\ roomStore[r].userA.has /\ roomStore[r].userA.socketId = A
  /\ roomStore[r].userB.has /\ roomStore[r].userB.socketId = B

\* A finished handler that redeemed its token into a fully paired room.
Redeemed(e) ==
  \/ e.kind = "join" /\ e.outcome = "paired"
  \/ e.kind = "listenForToken" /\ e.outcome = "completed"

\* The outcomes of join that end with an error event and no room.
Rejections == {"invalid", "unavailable", "error"}

\* C1: once a token has been redeemed into a fully paired room (by join finding
\* the issuer, or by listenForToken completing a pending room), every later join
\* with that token is rejected with an error and creates no room.
C1_SingleUse ==
  \A i, j \in DOMAIN log :
    (i < j /\ Redeemed(log[i]) /\ log[j].kind = "join" /\ log[j].token = log[i].token)
      => (log[j].outcome \in Rejections /\ log[j].roomId = NoRoom)

\* The log is: one token issued over HTTP for the HTTP flow, then listenForToken
\* by A and join by B on it, in either order, and nothing else.
BindAndRedeemOnly(A, B) ==
  /\ Len(log) = 3
  /\ log[1].kind = "generate-qr" /\ log[1].outcome = "token"
  /\ log[1].useHttp = "true" /\ log[1].socketId = Undefined
  /\ \E i, j \in {2, 3} :
       /\ i # j
       /\ log[i].kind = "listenForToken" /\ log[i].conn = A /\ log[i].token = log[1].token
       /\ log[j].kind = "join" /\ log[j].conn = B /\ log[j].token = log[1].token

\* Exactly one room, fully paired with A and B, and one joinedRoom at each side.
PairedOnce(A, B) ==
  /\ Cardinality(PresentRooms) = 1
  /\ \A r \in PresentRooms : FullyPaired(r, A, B)
  /\ Count(A, "joinedRoom") = 1
  /\ Count(B, "joinedRoom") = 1

\* C2: for one HTTP-issued token, issuer A and redeemer B both connected,
\* listenForToken-then-join and join-then-listenForToken both end with exactly
\* one fully paired room (userA = A, userB = B) and exactly one joinedRoom
\* delivered to A and to B.
C2_OrderIndependence ==
  \A A, B \in Conns :
    (A # B /\ Connected(A) /\ Connected(B) /\ Idle /\ BindAndRedeemOnly(A, B))
      => PairedOnce(A, B)

\* C3: when join by B and listenForToken by A run concurrently on one
\* HTTP-issued token, then in every interleaving, once both have finished, the
\* room is fully paired and both have received joinedRoom; B is never left in a
\* pending room with A bound to the token.
C3_RaceCompletesPairing ==
  \A A, B \in Conns :
    (A # B /\ Connected(A) /\ Connected(B) /\ Idle /\ BindAndRedeemOnly(A, B))
      => /\ PairedOnce(A, B)
         /\ ~ \E r \in PresentRooms :
                /\ roomStore[r].pendingUserA = "true"
                /\ roomStore[r].userB.socketId = B
                /\ tokenStore[log[1].token].requestingUserId = A

\* The handler that has just returned, in a run where handlers do not overlap.
JustDone(kind) == {s \in Slots : h[s].pc = "done" /\ h[s].kind = kind}
\* The connection was connected, in the deployment's namespace, when p started.
WasConnected(p, c) == c \in Conns /\ p.pre.live[c] = "connected" /\ NsOf(c) = BackendTemp
\* The language recorded on a token record; 'en' when it records none.
IssuerLanguage(rec) == IF rec.hostLanguage = Undefined THEN "en" ELSE rec.hostLanguage
JoinedRoom(r, lang) == Event("joinedRoom", r, lang, NoToken)

Lists(r, c) ==
  \/ roomStore[r].userA.has /\ roomStore[r].userA.socketId = c
  \/ roomStore[r].userB.has /\ roomStore[r].userB.socketId = c

\* C6: in every reachable state (stated here for the states between handlers)
\* each connection id is a participant (userA or userB) of at most one room
\* record in the store.
C6_OneRoomPerConnection ==
  Idle => \A c \in Conns : Cardinality({r \in PresentRooms : Lists(r, c)}) <= 1

\* C7: whenever no handler is in progress, the mapping connectionId -> roomId
\* exists if and only if the room record roomId exists and lists connectionId
\* as userA or userB.
C7_MappingIffMember ==
  Idle => \A c \in Conns, r \in Rooms :
            (userSocket[c] = r) <=> (roomStore[r].present /\ Lists(r, c))

PartnerLeft == Event("partnerLeft", NoRoom, Undefined, NoToken)
\* The other participant of a room record, seen from c.
OtherOf(room, c) ==
  IF room.userA.has /\ room.userA.socketId = c THEN room.userB.socketId
  ELSE room.userA.socketId
InRoom(room, c) ==
  \/ room.userA.has /\ room.userA.socketId = c
  \/ room.userB.has /\ room.userB.socketId = c

C9_DisconnectClearsSlot ==
  \A s \in JustDone("disconnect") :
    LET p == h[s]
        A == p.conn
        r == p.pre.socks[A]
        room == p.pre.rooms[r]
        B == OtherOf(room, A)
    IN (/\ p.pre.live[A] = "connected"
        /\ r # NoRoom /\ room.present
        /\ room.userA.has /\ room.userB.has /\ InRoom(room, A)
        /\ B \in Conns /\ B # A) =>
         /\ roomStore[r].present
         /\ ~Lists(r, A)
         /\ Lists(r, B)
         /\ userSocket[B] = p.pre.socks[B]

DisconnectDoneFor(c) ==
  \E i \in DOMAIN log : log[i].kind = "disconnect" /\ log[i].conn = c
WasPaired(r, A, B) ==
  \E i \in DOMAIN log :
    Redeemed(log[i]) /\ log[i].roomId = r /\ {log[i].conn, log[i].peer} = {A, B}

\* C10: for a fully paired room, once the disconnect handlers of both
\* participants have completed, in either order, the room record and both
\* mapping entries are absent from the store.
C10_RoomCollected ==
  \A r \in Rooms, A, B \in Conns :
    (A # B /\ Idle /\ WasPaired(r, A, B) /\ DisconnectDoneFor(A) /\ DisconnectDoneFor(B))
      => /\ ~roomStore[r].present
         /\ userSocket[A] = NoRoom
         /\ userSocket[B] = NoRoom
\* The pending room r of token t that redeemer B left by disconnecting: the log
\* holds B's join that waits in r and, later, B's disconnect that deleted r.
LeftPending(t, r, B) ==
  \E i, j \in DOMAIN log :
    /\ i < j
    /\ log[i].kind = "join" /\ log[i].outcome = "waiting"
    /\ log[i].conn = B /\ log[i].token = t /\ log[i].roomId = r
    /\ log[j].kind = "disconnect" /\ log[j].outcome = "deleted-room"
    /\ log[j].conn = B /\ log[j].roomId = r
IsPendingOf(room, B) ==
  room.present /\ room.pendingUserA = "true" /\ ~room.userA.has
    /\ room.userB.has /\ room.userB.socketId = B

RoomAtStart(p) == IF p.roomId \in Rooms THEN p.pre.rooms[p.roomId] ELSE AbsentRoom
IsPaired(room) ==
  room.present /\ room.pendingUserA # "true" /\ room.userA.has /\ room.userB.has
\* The language the room record gives for c, and for the other participant.
LangIn(room, c) ==
  IF room.userA.has /\ room.userA.socketId = c THEN room.userA.language
  ELSE room.userB.language
OtherLangIn(room, c) ==
  IF room.userA.has /\ room.userA.socketId = c THEN room.userB.language
  ELSE room.userA.language
\* The events delivered to c since handler p started.
NewFor(p, c) == SubSeq(inbox[c], Len(p.pre.inbox[c]) + 1, Len(inbox[c]))
NewMessagesFor(p, c) == SelectSeq(NewFor(p, c), LAMBDA e : e.ev = "newMessage")

\* C12: for every sendMessage in a paired room where the sender's language
\* equals the recipient's language, the translation collaborator is not invoked,
\* the message is delivered, and every newMessage delivered for it has
\* translated equal to original (the text that was sent).
C12_SameLanguageNoTranslation ==
  \A s \in JustDone("sendMessage") :
    LET p == h[s]
        room == RoomAtStart(p)
    IN (/\ IsPaired(room) /\ InRoom(room, p.conn)
        /\ LangIn(room, p.conn) \in Langs
        /\ LangIn(room, p.conn) = OtherLangIn(room, p.conn)) =>
         /\ ~p.invoked
         /\ p.outcome = "sent"
         /\ NewMessagesFor(p, p.conn) # <<>>
         /\ \A c \in Conns : \A i \in DOMAIN NewMessagesFor(p, c) :
              /\ NewMessagesFor(p, c)[i].original = p.text
              /\ NewMessagesFor(p, c)[i].translated = p.text

\* C12 happens: a message was relayed between two different connections that
\* have the same language, and the partner received it.
C12_Witness ==
  \E s \in JustDone("sendMessage") :
    LET p == h[s]
        room == RoomAtStart(p)
    IN /\ IsPaired(room) /\ InRoom(room, p.conn)
       /\ LangIn(room, p.conn) \in Langs
       /\ LangIn(room, p.conn) = OtherLangIn(room, p.conn)
       /\ p.recipient \in Conns /\ p.recipient # p.conn
       /\ NewMessagesFor(p, p.recipient) # <<>>
\* The translation collaborator was invoked by handler p and returned an error.
TranslationErrored(p) == p.invoked /\ p.translated = "(Translation failed)"

\* C13: when the languages differ and the translation collaborator returns an
\* error, sendMessage still delivers newMessage to the (connected) recipient and
\* to the sender, and the translated field of both equals the original text.
C13_TranslationFailureDegrades ==
  \A s \in JustDone("sendMessage") :
    LET p == h[s] IN
    (p.outcome = "sent" /\ TranslationErrored(p)) =>
      /\ NewMessagesFor(p, p.conn) # <<>>
      /\ Connected(p.recipient) => NewMessagesFor(p, p.recipient) # <<>>
      /\ \A c \in Conns : \A i \in DOMAIN NewMessagesFor(p, c) :
           /\ NewMessagesFor(p, c)[i].original = p.text
           /\ NewMessagesFor(p, c)[i].translated = p.text

\* The payload of newMessage as the claim describes it.
Payload(original, translated, role) ==
  [ev |-> "newMessage", roomId |-> NoRoom, partnerLanguage |-> Undefined, token |-> NoToken,
   original |-> original, translated |-> translated, sender |-> role]

HasLeft(r, c) ==
  \E j \in DOMAIN log : log[j].kind = "disconnect" /\ log[j].conn = c /\ log[j].roomId = r
\* The slot of the other participant holds no connection id.
PartnerSlotEmpty(room, c) ==
  \/ room.userA.has /\ room.userA.socketId = c /\ ~room.userB.has
  \/ room.userB.has /\ room.userB.socketId = c /\ ~room.userA.has

\* C15: sendMessage from S into a room whose recipient slot has no connection
\* id - a pending room, or a room whose other participant has disconnected -
\* sends one error to S, delivers no newMessage to anyone and leaves the room
\* records and the mappings unchanged.
C15_PartnerUnavailable ==
  \A s \in JustDone("sendMessage") :
    LET p == h[s]
        S == p.conn
        room == RoomAtStart(p)
    IN (/\ room.present /\ InRoom(room, S)
        /\ \/ PartnerSlotEmpty(room, S)
           \/ OtherOf(room, S) # S /\ HasLeft(p.roomId, OtherOf(room, S))) =>
         /\ p.outcome = "partner-unavailable"
         /\ NewFor(p, S) = <<Event("error", NoRoom, Undefined, NoToken)>>
         /\ \A c \in Conns \ {S} : NewFor(p, c) = <<>>
         /\ roomStore = p.pre.rooms
         /\ userSocket = p.pre.socks

\* C16: if the same sender starts sendMessage for m1 and then for m2 in the same
\* room (the two handlers may overlap), the recipient receives newMessage for m1
\* before newMessage for m2.
C16_PerSenderOrdering ==
  \A i, j \in DOMAIN log :
    (/\ log[i].kind = "sendMessage" /\ log[j].kind = "sendMessage"
     /\ log[i].outcome = "sent" /\ log[j].outcome = "sent"
     /\ log[i].conn = log[j].conn /\ log[i].roomId = log[j].roomId
     /\ log[i].peer = log[j].peer /\ log[i].peer \in Conns /\ log[i].peer # log[i].conn
     /\ log[i].text # log[j].text
     /\ log[i].at < log[j].at) =>
      LET R == log[i].peer
          got == SelectSeq(inbox[R], LAMBDA e : e.ev = "newMessage")
      IN \A a, b \in DOMAIN got :
           (got[a].original = log[i].text /\ got[b].original = log[j].text) => a < b
\* C17: whenever join ends by sending an error to the redeemer (a store
\* failure, an unknown token, or the issuer being unavailable), the token
\* record is in the store as it was when the handler started.
C17_FailedJoinKeepsToken ==
  \A s \in JustDone("join") :
    LET p == h[s] IN
    (p.token \in Tokens /\ p.outcome \in Rejections) =>
      tokenStore[p.token] = p.pre.tokens[p.token]

\* C18: a join whose token or whose language is missing is answered with one
\* error event to the caller and writes nothing to the store: no room, no
\* mapping, no change of a token.
C18_JoinInputValidated ==
  \A s \in JustDone("join") :
    LET p == h[s] IN
    (p.token = NoToken \/ p.language = Undefined) =>
      /\ p.roomId = NoRoom
      /\ NewFor(p, p.conn) = <<Event("error", NoRoom, Undefined, NoToken)>>
      /\ \A c \in Conns \ {p.conn} : NewFor(p, c) = <<>>
      /\ roomStore = p.pre.rooms
      /\ userSocket = p.pre.socks
      /\ tokenStore = p.pre.tokens
\* The handlers that answer a socket event.
SocketHandlers == {"join", "generateToken", "listenForToken", "sendMessage"}

\* C19: in every handler (join, generateToken, listenForToken, sendMessage),
\* also when store commands fail, an error event is sent only to the connection
\* whose event is being handled: never to the partner or a third connection.
C19_ErrorsStayWithOriginator ==
  \A s \in Slots :
    LET p == h[s] IN
    p.kind \in SocketHandlers =>
      /\ \A i \in DOMAIN p.sent : p.sent[i].ev = "error" => p.sent[i].to = p.conn
      /\ \A c \in Conns \ {p.conn} : \A i \in DOMAIN NewFor(p, c) : NewFor(p, c)[i].ev # "error"

\* C19 happens: sendMessage has failed at the store and reported the error
\* while the sender's partner in the room was connected.
C19_Witness ==
  \E s \in JustDone("sendMessage") :
    LET p == h[s]
        room == RoomAtStart(p)
    IN /\ p.outcome = "error"
       /\ NewFor(p, p.conn) # <<>>
       /\ IsPaired(room) /\ InRoom(room, p.conn)
       /\ OtherOf(room, p.conn) # p.conn /\ Connected(OtherOf(room, p.conn))

\* C20: a room with pendingUserA = true has no userA connection id; a
\* sendMessage addressed to a pending room delivers no newMessage to anyone;
\* and when listenForToken has completed a room, its pendingUserA is false and
\* its userA holds the connection id of the issuer (the caller).
C20_PendingRoomRelaysNothing ==
  /\ \A r \in Rooms :
       (roomStore[r].present /\ roomStore[r].pendingUserA = "true") => ~roomStore[r].userA.has
  /\ \A s \in JustDone("sendMessage") :
       (RoomAtStart(h[s]).present /\ RoomAtStart(h[s]).pendingUserA = "true") =>
         \A c \in Conns : NewMessagesFor(h[s], c) = <<>>
  /\ \A s \in JustDone("listenForToken") :
       h[s].outcome = "completed" =>
         /\ roomStore[h[s].roomId].present
         /\ roomStore[h[s].roomId].pendingUserA = "false"
         /\ roomStore[h[s].roomId].userA.has
         /\ roomStore[h[s].roomId].userA.socketId = h[s].conn

\* C20 happens: the redeemer of a pending room has sent a message into it.
C20_Witness ==
  \E s \in JustDone("sendMessage") :
    LET room == RoomAtStart(h[s]) IN
    /\ room.present /\ room.pendingUserA = "true"
    /\ room.userB.has /\ room.userB.socketId = h[s].conn
    /\ h[s].outcome = "partner-unavailable"
\* C21: every room record in the store was written with a bounded TTL (on
\* creation by join, paired or pending, and on every later write), so no room
\* record can stay in the store forever.
C21_RoomsHaveTtl ==
  \A r \in Rooms : roomStore[r].present => roomStore[r].ttl > 0

\* A token issuance that has just returned.
JustIssued == JustDone("generate-qr") \cup JustDone("generateToken")

\* C22: token issuance (POST /generate-qr and the generateToken event) adds one
\* token record and nothing else: no room record and no mapping is created,
\* changed or deleted, no other token changes, and no event goes to a
\* connection other than the requester.
C22_IssuanceFrame ==
  \A s \in JustIssued :
    LET p == h[s] IN
    /\ ~p.pre.tokens[p.token].present
    /\ tokenStore[p.token].present
    /\ \A t \in Tokens \ {p.token} : tokenStore[t] = p.pre.tokens[t]
    /\ roomStore = p.pre.rooms
    /\ userSocket = p.pre.socks
    /\ \A c \in Conns \ {p.conn} : inbox[c] = p.pre.inbox[c]

\* C22 happens: generateToken has returned to a requester while a room with
\* a participant other than the requester and their mappings were in the store.
C22_Witness ==
  \E s \in JustDone("generateToken") :
    /\ h[s].outcome = "token"
    /\ Count(h[s].conn, "tokenGenerated") >= 1
    /\ \E r \in PresentRooms, c \in Conns : c # h[s].conn /\ Lists(r, c) /\ userSocket[c] = r

\* C23: every token issued through POST /generate-qr is stored with no bound
\* issuer connection and with the long TTL of 600 seconds, whatever the request
\* carries.
C23_HttpTokenUnboundLongTtl ==
  \A s \in JustDone("generate-qr") :
    /\ tokenStore[h[s].token].present
    /\ tokenStore[h[s].token].ttl = 600
    /\ tokenStore[h[s].token].requestingUserId \notin Conns
ErrorEvent == Event("error", NoRoom, Undefined, NoToken)

\* C24: sendMessage naming a room that is not in the store, or sent by a
\* connection that is neither userA nor userB of the room, sends one error to
\* the caller and nothing to anyone else, invokes no translation and delivers
\* no newMessage to any connection.
C24_UnknownRoomOrForeignSender ==
  \A s \in JustDone("sendMessage") :
    LET p == h[s]
        room == RoomAtStart(p)
    IN (~room.present \/ ~InRoom(room, p.conn)) =>
         /\ NewFor(p, p.conn) = <<ErrorEvent>>
         /\ \A c \in Conns \ {p.conn} : NewFor(p, c) = <<>>
         /\ ~p.invoked
         /\ roomStore = p.pre.rooms /\ userSocket = p.pre.socks /\ tokenStore = p.pre.tokens

\* C24 happens: a connection has sent a message to a fully paired room of two
\* other connections, both connected.
C24_Witness ==
  \E s \in JustDone("sendMessage") :
    LET p == h[s]
        room == RoomAtStart(p)
    IN /\ IsPaired(room) /\ ~InRoom(room, p.conn)
       /\ Connected(room.userA.socketId) /\ Connected(room.userB.socketId)
       /\ p.outcome = "nosender"

\* The id was resolvable in the registry of /backend-temp when p started.
WasResolvable(p, id) ==
  id \in Conns /\ p.pre.live[id] = "connected" /\ NsOf(id) = "/backend-temp"

StoreFailed(p) == p.pc = "done" /\ (p.res = "err" \/ p.outcome = "notready")

\* C26: whenever a store call fails inside join, generateToken, listenForToken
\* or sendMessage, the handler sends an error event to the connection whose
\* event it handles; no handler ends silently after a store failure.
C26_StoreFailureSurfaced ==
  \A s \in Slots :
    LET p == h[s] IN
    (p.kind \in SocketHandlers /\ StoreFailed(p)) =>
      \E i \in DOMAIN p.sent : p.sent[i].ev = "error" /\ p.sent[i].to = p.conn

\* C27: in the disconnect handler, a partner that the registry does not
\* resolve does not keep the mapping of the disconnecting connection from
\* being deleted, and no run of the handler - also when a store command fails
\* at any step - sends an error event to any connection.
C27_TeardownBestEffortSilent ==
  \A s \in JustDone("disconnect") :
    LET p == h[s]
        A == p.conn
        r == p.pre.socks[A]
        room == p.pre.rooms[r]
    IN /\ \A i \in DOMAIN p.sent : p.sent[i].ev # "error"
       /\ \A c \in Conns : \A i \in DOMAIN NewFor(p, c) : NewFor(p, c)[i].ev # "error"
       /\ (/\ r # NoRoom /\ room.present /\ room.userA.has /\ room.userB.has
           /\ InRoom(room, A) /\ ~Connected(OtherOf(room, A))
           /\ p.outcome # "error") =>
            userSocket[A] = NoRoom

\* C27 happens: a store command failed while the handler ran for a connection
\* whose partner in a paired room was connected.
C27_Witness ==
  \E s \in JustDone("disconnect") :
    LET p == h[s]
        r == p.pre.socks[p.conn]
    IN /\ p.outcome = "error"
       /\ r # NoRoom /\ IsPaired(p.pre.rooms[r]) /\ InRoom(p.pre.rooms[r], p.conn)
       /\ OtherOf(p.pre.rooms[r], p.conn) # p.conn
       /\ Connected(OtherOf(p.pre.rooms[r], p.conn))
\* C28: when the disconnecting connection has no mapping entry (it was never
\* paired, or its teardown already ran), the disconnect handler changes no
\* token, room or mapping record and sends no event to any connection.
C28_UnpairedDisconnectNoOp ==
  \A s \in JustDone("disconnect") :
    LET p == h[s] IN
    p.pre.socks[p.conn] = NoRoom =>
      /\ tokenStore = p.pre.tokens
      /\ roomStore = p.pre.rooms
      /\ userSocket = p.pre.socks
      /\ inbox = p.pre.inbox
      /\ p.sent = <<>>

\* C28 happens: a connection that was never paired has disconnected while
\* another connection was in a room.
C28_Witness ==
  \E s \in JustDone("disconnect") :
    /\ h[s].pre.socks[h[s].conn] = NoRoom
    /\ h[s].pre.live[h[s].conn] = "connected"
    /\ \A r \in Rooms : ~(h[s].pre.rooms[r].present /\ InRoom(h[s].pre.rooms[r], h[s].conn))
    /\ \E r \in PresentRooms, c \in Conns : Lists(r, c) /\ userSocket[c] = r

\* The room record waits for the issuer of token t.
IsPendingFor(room, t) == room.present /\ room.pendingUserA = "true" /\ room.token = t
\* An earlier listenForToken of the same connection completed a room of the token.
CompletedBefore(p) ==
  \E i \in DOMAIN log :
    /\ i < Len(log)
    /\ log[i].kind = "listenForToken" /\ log[i].outcome = "completed"
    /\ log[i].conn = p.conn /\ log[i].token = p.token

C30_AbsentToken ==
  \A s \in JustDone("join") \cup JustDone("listenForToken") :
    LET p == h[s] IN
    (p.token \in Tokens /\ ~p.pre.tokens[p.token].present) =>
      /\ NewFor(p, p.conn) = <<ErrorEvent>>
      /\ \A c \in Conns \ {p.conn} : NewFor(p, c) = <<>>
      /\ tokenStore = p.pre.tokens
      /\ roomStore = p.pre.rooms
      /\ userSocket = p.pre.socks

\* C30 happens: listenForToken came for a token that had expired while a room
\* was waiting for its issuer.
C30_Witness ==
  \E s \in JustDone("listenForToken") :
    /\ ~h[s].pre.tokens[h[s].token].present
    /\ \E r \in Rooms : IsPendingFor(roomStore[r], h[s].token)
\* --------------------------------------- disconnect racing with listenForToken
\* Two handlers may be in flight at once; the events are token issuance over
\* HTTP for the HTTP flow, join, listenForToken and disconnect.
NextLeave ==
  \/ \E s \in Slots : GenerateQr(s, "true", Undefined, "es")
  \/ \E s \in Slots, c \in Conns, t \in Tokens : JoinStart(s, c, t, LangOf(c))
  \/ \E s \in Slots : JoinAfterGet(s)
  \/ \E s \in Slots : JoinPendingAfterRoom(s)
  \/ \E s \in Slots : JoinPendingDone(s)
  \/ \E s \in Slots : JoinAfterRoom(s)
  \/ \E s \in Slots : JoinAfterSockA(s)
  \/ \E s \in Slots : JoinAfterSockB(s)
  \/ \E s \in Slots : JoinPairedDone(s)
  \/ \E s \in Slots, c \in Conns, t \in Tokens : ListenStart(s, c, t, LangOf(c))
  \/ \E s \in Slots : ListenAfterGet(s)
  \/ \E s \in Slots : ListenAfterSet(s)
  \/ \E s \in Slots : ListenAfterKeys(s)
  \/ \E s \in Slots : ListenAfterRoom(s)
  \/ \E s \in Slots : ListenAfterRoomSet(s)
  \/ \E s \in Slots : ListenCompletedDone(s)
  \/ \E s \in Slots, c \in Conns : Disconnect(s, c)
  \/ \E s \in Slots : DisconnectAfterSock(s)
  \/ \E s \in Slots : DisconnectAfterRoom(s)
  \/ \E s \in Slots : DisconnectAfterRoomDel(s)
  \/ \E s \in Slots : DisconnectDone(s)

SpecLeave == InitRace /\ [][NextLeave]_vars

\* The connection the handler p treats as the issuer, and as the redeemer.
IssuerOf(p) == IF p.kind = "join" THEN p.userA ELSE p.conn
RedeemerOf(p) == IF p.kind = "join" THEN p.conn ELSE p.room.userB.socketId
Emitted(p, ev, c, r) ==
  \E i \in DOMAIN p.sent : p.sent[i].ev = ev /\ p.sent[i].to = c /\ p.sent[i].roomId = r

\* C31: pairing completion notifies both sides or neither: whenever join or
\* listenForToken sends joinedRoom for a room to the issuer, it also sends
\* joinedRoom for that room to the redeemer, also when the redeemer of a
\* pending room is not resolvable when listenForToken completes the room.
C31_BothOrNeither ==
  \A s \in JustDone("join") \cup JustDone("listenForToken") :
    LET p == h[s] IN
    \A r \in Rooms :
      Emitted(p, "joinedRoom", IssuerOf(p), r) => Emitted(p, "joinedRoom", RedeemerOf(p), r)
\* A received joinedRoom for room r; A received it and, later, partnerLeft.
GotJoined(A, r) ==
  \E i \in DOMAIN inbox[A] : inbox[A][i].ev = "joinedRoom" /\ inbox[A][i].roomId = r
JoinedThenLeft(A, r) ==
  \E i, j \in DOMAIN inbox[A] :
    /\ i < j
    /\ inbox[A][i].ev = "joinedRoom" /\ inbox[A][i].roomId = r
    /\ inbox[A][j].ev = "partnerLeft"

\* C32: when the disconnect handler of the redeemer B of a pending room and
\* listenForToken of the issuer A for the room's token overlap, then in every
\* interleaving, once both have finished, either A has not received joinedRoom
\* and has no mapping to the room, or A has received joinedRoom and then
\* partnerLeft; and a room that the disconnect handler deleted is not in the
\* store again and A holds no mapping to it.
C32_LeaveRaceConsistent ==
  \A s1, s2 \in Slots :
    LET d == h[s1]
        l == h[s2]
        B == d.conn
        A == l.conn
        r == d.pre.socks[B]
    IN (/\ Idle
        /\ d.pc = "done" /\ d.kind = "disconnect"
        /\ l.pc = "done" /\ l.kind = "listenForToken"
        /\ d.pre.live[B] = "connected" /\ r # NoRoom /\ IsPendingOf(d.pre.rooms[r], B)
        /\ d.pre.rooms[r].token = l.token
        /\ A # B /\ Connected(A)) =>
         /\ \/ ~GotJoined(A, r) /\ userSocket[A] # r
            \/ JoinedThenLeft(A, r)
         /\ d.outcome = "deleted-room" => (~roomStore[r].present /\ userSocket[A] # r)
\* C33: when two different redeemers send join with the same valid token and
\* the two handlers may overlap, at most one of them is paired with the issuer;
\* the other ends with the invalid-or-expired-token error and creates no room.
C33_ConcurrentJoinsOneWins ==
  \A i, j \in DOMAIN log :
    (/\ i # j
     /\ log[i].kind = "join" /\ log[j].kind = "join"
     /\ log[i].token = log[j].token /\ log[i].conn # log[j].conn
     /\ log[i].outcome = "paired") =>
      (log[j].outcome = "invalid" /\ log[j].roomId = NoRoom)

\* C34: in every reachable state, for each token at most one room record carries
\* that token with pendingUserA = true.
C34_OnePendingRoomPerToken ==
  \A t \in Tokens : Cardinality({r \in Rooms : IsPendingFor(roomStore[r], t)}) <= 1

\* The join handler p has sent an error event to its caller.
SentError(p) == \E i \in DOMAIN p.sent : p.sent[i].ev = "error" /\ p.sent[i].to = p.conn

\* C35: when join has sent an error to the redeemer (also after a store failure
\* between its writes), the store holds no room record and no mapping entry
\* that this join wrote: room records and mappings are as they were when the
\* handler started.
C35_FailedJoinLeavesNothing ==
  \A s \in JustDone("join") :
    SentError(h[s]) => (roomStore = h[s].pre.rooms /\ userSocket = h[s].pre.socks)

\* C36: in every reachable state no room record has the same connection id in
\* userA and in userB.
C36_DistinctParticipants ==
  \A r \in Rooms :
    (roomStore[r].present /\ roomStore[r].userA.has /\ roomStore[r].userB.has) =>
      roomStore[r].userA.socketId # roomStore[r].userB.socketId
\* The store backs a joinedRoom{r} sent to c: a non-pending room record r that
\* lists c, and the mapping from c to r.
Backed(rooms, socks, c, r) ==
  /\ r \in Rooms /\ c \in Conns
  /\ rooms[r].present /\ rooms[r].pendingUserA # "true"
  /\ InRoom(rooms[r], c)
  /\ socks[c] = r

\* C37: at the moment join or listenForToken sends joinedRoom{roomId} to a
\* connection, the store holds a non-pending room record roomId that lists the
\* connection as userA or userB, and the mapping from the connection to roomId.
C37_JoinedRoomMatchesStore ==
  [][\A s \in Slots :
       (h[s].pc # "done" /\ h'[s].pc = "done" /\ h'[s].kind \in {"join", "listenForToken"}) =>
         \A i \in DOMAIN h'[s].sent :
           h'[s].sent[i].ev = "joinedRoom" =>
             Backed(roomStore', userSocket', h'[s].sent[i].to, h'[s].sent[i].roomId)]_vars
\* What handler p has delivered to its caller as a response: error events and
\* newMessage events with sender = "self".
Responses(p) ==
  SelectSeq(NewFor(p, p.conn),
            LAMBDA e : e.ev = "error" \/ (e.ev = "newMessage" /\ e.sender = "self"))

C39_SendWritesNothing ==
  \A s \in Slots :
    h[s].kind = "sendMessage" =>
      /\ tokenStore = h[s].pre.tokens
      /\ roomStore = h[s].pre.rooms
      /\ userSocket = h[s].pre.socks

\* C39 happens: a message has been relayed to a connected partner in a room
\* that is in the store with both mappings.
C39_Witness ==
  \E s \in JustDone("sendMessage") :
    LET p == h[s] IN
    /\ p.outcome = "sent"
    /\ p.recipient \in Conns /\ p.recipient # p.conn
    /\ NewMessagesFor(p, p.recipient) # <<>>
    /\ roomStore[p.roomId].present
    /\ userSocket[p.conn] = p.roomId /\ userSocket[p.recipient] = p.roomId
====
